---- MODULE Spec2Model ----
(***************************************************************************)
(* Model of multithreading.py: a seed listing page is fetched, the links   *)
(* of its list items are collected, and a ThreadPoolExecutor runs          *)
(* extract_movie_details over every link; each task fetches one detail     *)
(* page, extracts four fields and appends a CSV row when all four are      *)
(* truthy.                                                                 *)
(***************************************************************************)
EXTENDS Integers, Sequences, FiniteSets, TLC

VARIABLES mainPc,       \* position of main / extract_movies
          error,        \* exception that reached the caller of main ("None" if none)
          soup,         \* parsed seed markup (NoSoup before it is fetched)
          movie_links,  \* the list built at line 88
          threads,      \* max_workers of the executor (line 91)
          workers,      \* worker thread -> index of the task it runs (0 = idle)
          state,        \* per submitted task: Pending/Fetching/Extracted/Committed/Discarded
          response,     \* per task: the page the GET returned (NoPage before)
          record,       \* per task: the four extracted fields
          exc,          \* per task: exception stored in its future ("None" if none)
          gets,         \* per task: number of GET requests sent
          wrote,        \* per task: number of rows it appended
          opened,       \* tasks holding movies.csv open (line 72)
          sink,         \* rows of movies.csv
          sink0         \* rows movies.csv held before the run

vars == <<mainPc, error, soup, movie_links, threads, workers, state, response,
          record, exc, gets, wrote, opened, sink, sink0>>

----------------------------------------------------------------------------
(* Bounds *)

\* longest list of items a seed page of the pipeline holds
MaxLinks == 3

\* longest list of items of a seed page handed to the link collector alone
MaxSeedItems == 2

\* most direct child divs of the section of a detail page handed to the
\* extraction alone
MaxDivs == 2

\* scaled-down MAX_THREADS (100 in the source); smaller than MaxLinks so that
\* a list longer than the bound is dispatched
MAX_THREADS == 2

----------------------------------------------------------------------------
(* Text: a string is a sequence of characters *)

Min(a, b) == IF a <= b THEN a ELSE b

RECURSIVE LStrip(_)
LStrip(s) == IF s # <<>> /\ Head(s) = " " THEN LStrip(Tail(s)) ELSE s

RECURSIVE RStrip(_)
RStrip(s) == IF s # <<>> /\ s[Len(s)] = " " THEN RStrip(SubSeq(s, 1, Len(s) - 1)) ELSE s

\* str.strip()
Strip(s) == RStrip(LStrip(s))

\* an optional string: None, or a string
None == [null |-> TRUE, text |-> <<>>]
Str(s) == [null |-> FALSE, text |-> s]

\* Python truthiness of an optional string: None and "" are falsy
Truthy(f) == ~f.null /\ f.text # <<>>

----------------------------------------------------------------------------
(* Seed markup and the link collector (extract_movies, lines 84-88) *)

\* 'https://imdb.com'
Origin == <<"https://imdb.com">>

\* the href of the k-th title
Href(k) == <<"/title/tt", k, "/">>

Href1 == Href(1)
Href2 == Href(2)

\* an <a> element is its href attribute: None when the attribute is missing
Anchors == {Str(Href1), Str(Href2), None}

\* an <li> element is the sequence of the <a> elements below it, in document order
Items == {<<>>} \cup {<<a>> : a \in Anchors} \cup {<<a, b>> : a, b \in Anchors}

NoSoup == [container |-> FALSE, list |-> FALSE, items |-> <<>>, fetched |-> FALSE]

\* seed markup: is the chart container there, does it hold a <ul>, and the <li> of the <ul>
Seed(c, l, its) == [container |-> c, list |-> l, items |-> its, fetched |-> TRUE]

\* movie.find('a')['href'] of one <li>: the exception it raises, "None" if none
ItemError(item) ==
    IF item = <<>> THEN "TypeError"          \* find('a') is None: None['href']
    ELSE IF item[1].null THEN "KeyError"     \* first <a> has no href
    ELSE "None"

\* first exception of the list comprehension of line 88, in document order
RECURSIVE ItemsError(_)
ItemsError(items) ==
    IF items = <<>> THEN "None"
    ELSE IF ItemError(Head(items)) # "None" THEN ItemError(Head(items))
    ELSE ItemsError(Tail(items))

\* a collector that takes a missing container or list for an empty list
CollectError_Tolerant(s) ==
    IF ~s.container \/ ~s.list THEN "None" ELSE ItemsError(s.items)

\* exception raised by lines 84-88 on seed markup s, "None" if none
CollectError(s) ==
    IF ~s.container THEN "AttributeError"    \* soup.find(...) is None: None.find('ul')
    ELSE IF ~s.list THEN "AttributeError"    \* movies_table is None: None.find_all('li')
    ELSE ItemsError(s.items)

\* the collector taking the last link of every item instead of the first
RECURSIVE Links_LastLink(_)
Links_LastLink(items) ==
    IF items = <<>> THEN <<>>
    ELSE <<Origin \o Head(items)[Len(Head(items))].text>> \o Links_LastLink(Tail(items))

\* line 88: 'https://imdb.com' + movie.find('a')['href'] for every <li>
RECURSIVE Links(_)
Links(items) ==
    IF items = <<>> THEN <<>>
    ELSE <<Origin \o Head(items)[1].text>> \o Links(Tail(items))

\* one thread per link, whatever MAX_THREADS
Threads_Len(links) == Len(links)

\* line 91
Threads(links) == Min(MAX_THREADS, Len(links))

----------------------------------------------------------------------------
(* Detail markup and extraction (extract_movie_details, lines 38-69) *)

NoPage == [section |-> FALSE, divs |-> 0, h1 |-> FALSE, span |-> FALSE,
           spanText |-> <<>>, release |-> FALSE, releaseText |-> <<>>,
           ratingTag |-> FALSE, ratingText |-> <<>>,
           plotTag |-> FALSE, plotText |-> <<>>, fetched |-> FALSE]

\* a detail page: the nodes the extraction looks for and their texts
Page(sec, nd, h, sp, st, rel, rt, rat, ratt, pl, plt) ==
    [section |-> sec, divs |-> nd, h1 |-> h, span |-> sp, spanText |-> st,
     release |-> rel, releaseText |-> rt, ratingTag |-> rat, ratingText |-> ratt,
     plotTag |-> pl, plotText |-> plt, fetched |-> TRUE]

\* lines 47 and 50: the branch that looks for the fields is entered
HasTarget(p) == p.section /\ p.divs > 1

\* line 56: title_tag.find('span') is None and .get_text() raises AttributeError
ExtractRaises(p) == HasTarget(p) /\ p.h1 /\ ~p.span

\* lines 54-56
Title(p) == IF HasTarget(p) /\ p.h1 /\ p.span THEN Str(p.spanText) ELSE None

\* lines 59-61
Date(p) == IF HasTarget(p) /\ p.release THEN Str(Strip(p.releaseText)) ELSE None

\* lines 64-65
Rating(p) == IF HasTarget(p) /\ p.ratingTag THEN Str(p.ratingText) ELSE None

\* lines 68-69
Plot(p) == IF HasTarget(p) /\ p.plotTag THEN Str(Strip(p.plotText)) ELSE None

NullRecord == [title |-> None, date |-> None, rating |-> None, plot |-> None]

\* the four fields extract_movie_details holds at line 72
Extract(p) == [title |-> Title(p), date |-> Date(p), rating |-> Rating(p), plot |-> Plot(p)]

\* the gate without the rating field
Gate_SkipRating(r) == Truthy(r.title) /\ Truthy(r.date) /\ Truthy(r.plot)

\* the gate testing "is not None" instead of truthiness
Gate_NotNone(r) == ~r.title.null /\ ~r.date.null /\ ~r.rating.null /\ ~r.plot.null

\* line 75: all([title, date, rating, plot_text])
Gate(r) == Truthy(r.title) /\ Truthy(r.date) /\ Truthy(r.rating) /\ Truthy(r.plot)

\* line 77: the row handed to writerow
Row(r) == <<r.title.text, r.date.text, r.rating.text, r.plot.text>>

----------------------------------------------------------------------------
(* Inputs of the pipeline *)

\* seed pages the listing address may return: container or list missing, a
\* list of n items with links, an item without <a>, a first <a> without href
GoodItems(n) == [k \in 1..n |-> IF k = 2 THEN <<Str(Href(k)), Str(Href1)>> ELSE <<Str(Href(k))>>]

PipelineSeeds ==
    {Seed(FALSE, FALSE, <<>>), Seed(TRUE, FALSE, <<>>)}
    \cup {Seed(TRUE, TRUE, GoodItems(n)) : n \in 0..MaxLinks}
    \cup {Seed(TRUE, TRUE, <<<<Str(Href1)>>, <<>>>>), Seed(TRUE, TRUE, <<<<None, Str(Href1)>>>>)}

\* detail pages a title address may return
PageFullA     == Page(TRUE, 2, TRUE, TRUE, <<"A">>, TRUE, <<" ", "y", " ">>, TRUE, <<"8">>, TRUE, <<"p", " ">>)
PageFullB     == Page(TRUE, 2, TRUE, TRUE, <<"B">>, TRUE, <<"z">>, TRUE, <<"9">>, TRUE, <<"q">>)
PageNoSection == Page(FALSE, 0, FALSE, FALSE, <<>>, FALSE, <<>>, TRUE, <<"8">>, TRUE, <<"p">>)
PageOneDiv    == Page(TRUE, 1, FALSE, FALSE, <<>>, FALSE, <<>>, TRUE, <<"8">>, TRUE, <<"p">>)
PageNoSpan    == Page(TRUE, 2, TRUE, FALSE, <<>>, TRUE, <<"y">>, TRUE, <<"8">>, TRUE, <<"p">>)
PageNoRating  == Page(TRUE, 2, TRUE, TRUE, <<"A">>, TRUE, <<"y">>, FALSE, <<>>, TRUE, <<"p">>)
PageEmptyTitle == Page(TRUE, 2, TRUE, TRUE, <<>>, TRUE, <<"y">>, TRUE, <<"8">>, TRUE, <<"p">>)
PageBlankDate == Page(TRUE, 2, TRUE, TRUE, <<"A">>, TRUE, <<" ">>, TRUE, <<"8">>, TRUE, <<"p">>)

PipelinePages == {PageFullA, PageFullB, PageNoSection, PageOneDiv, PageNoSpan,
                  PageNoRating, PageEmptyTitle, PageBlankDate}

\* a row a previous run left in movies.csv
OldRow == <<<<"O">>, <<"o">>, <<"7">>, <<"r">>>>

----------------------------------------------------------------------------
(* State helpers *)

Tasks == 1..Len(state)

Terminal(i) == state[i] \in {"Committed", "Discarded"}

InFlight == {i \in Tasks : state[i] \in {"Fetching", "Extracted"}}

Pending == {i \in Tasks : state[i] = "Pending"}

\* head of the executor's work queue
NextPending == CHOOSE i \in Pending : \A j \in Pending : i <= j

Set(f, i, v) == [f EXCEPT ![i] = v]

----------------------------------------------------------------------------
(* main and extract_movies *)

Init ==
    /\ mainPc = "Start"
    /\ error = "None"
    /\ soup = NoSoup
    /\ movie_links = <<>>
    /\ threads = 0
    /\ workers = <<>>
    /\ state = <<>>
    /\ response = <<>>
    /\ record = <<>>
    /\ exc = <<>>
    /\ gets = <<>>
    /\ wrote = <<>>
    /\ opened = {}
    /\ sink \in {<<>>, <<OldRow>>}
    /\ sink0 = sink

\* main, lines 102-103: the GET of the listing page returns markup
FetchSeedOk ==
    /\ mainPc = "Start"
    /\ \E s \in PipelineSeeds : soup' = s
    /\ mainPc' = "Collect"
    /\ UNCHANGED <<error, movie_links, threads, workers, state, response, record,
                   exc, gets, wrote, opened, sink, sink0>>

\* main, line 102: the GET of the listing page raises
FetchSeedFail ==
    /\ mainPc = "Start"
    /\ mainPc' = "Raised"
    /\ error' = "ConnectionError"
    /\ UNCHANGED <<soup, movie_links, threads, workers, state, response, record,
                   exc, gets, wrote, opened, sink, sink0>>

\* extract_movies, lines 84-88
CollectLinks ==
    /\ mainPc = "Collect"
    /\ IF CollectError(soup) # "None"
       THEN /\ mainPc' = "Raised"
            /\ error' = CollectError(soup)
            /\ UNCHANGED movie_links
       ELSE /\ movie_links' = Links(soup.items)
            /\ mainPc' = "Pool"
            /\ UNCHANGED error
    /\ UNCHANGED <<soup, threads, workers, state, response, record,
                   exc, gets, wrote, opened, sink, sink0>>

\* extract_movies, lines 91-92: ThreadPoolExecutor(max_workers=threads) raises
\* ValueError when max_workers <= 0
CreatePool ==
    /\ mainPc = "Pool"
    /\ threads' = Threads(movie_links)
    /\ IF threads' <= 0
       THEN /\ mainPc' = "Raised"
            /\ error' = "ValueError"
            /\ UNCHANGED workers
       ELSE /\ workers' = [w \in 1..threads' |-> 0]
            /\ mainPc' = "Map"
            /\ UNCHANGED error
    /\ UNCHANGED <<soup, movie_links, state, response, record,
                   exc, gets, wrote, opened, sink, sink0>>

\* extract_movies, line 93: executor.map submits one task per link, in order;
\* the iterator of results is dropped
Submit ==
    /\ mainPc = "Map"
    /\ Len(state) < Len(movie_links)
    /\ state' = Append(state, "Pending")
    /\ response' = Append(response, NoPage)
    /\ record' = Append(record, NullRecord)
    /\ exc' = Append(exc, "None")
    /\ gets' = Append(gets, 0)
    /\ wrote' = Append(wrote, 0)
    /\ mainPc' = IF Len(state') = Len(movie_links) THEN "Shutdown" ELSE "Map"
    /\ UNCHANGED <<error, soup, movie_links, threads, workers, opened, sink, sink0>>

\* shutdown(wait=False): the caller does not wait for the workers
Joined_NoWait == TRUE

\* the worker threads have exited: none runs a task and the queue is empty
Joined == (\A w \in DOMAIN workers : workers[w] = 0) /\ Pending = {}

\* extract_movies, line 92: leaving the with block is shutdown(wait=True)
Join ==
    /\ mainPc = "Shutdown"
    /\ Joined
    /\ mainPc' = "Report"
    /\ UNCHANGED <<error, soup, movie_links, threads, workers, state, response, record,
                   exc, gets, wrote, opened, sink, sink0>>

\* main, lines 108-110
Report ==
    /\ mainPc = "Report"
    /\ mainPc' = "Done"
    /\ UNCHANGED <<error, soup, movie_links, threads, workers, state, response, record,
                   exc, gets, wrote, opened, sink, sink0>>

----------------------------------------------------------------------------
(* Worker threads running extract_movie_details *)

\* a worker that reads the head of the queue without removing it: the task
\* leaves the queue only when a second worker has read it too
Take_Peek(w) ==
    /\ workers[w] = 0
    /\ Pending # {}
    /\ workers' = Set(workers, w, NextPending)
    /\ state' = IF \E v \in DOMAIN workers : workers[v] = NextPending
                THEN Set(state, NextPending, "Fetching") ELSE state
    /\ UNCHANGED <<mainPc, error, soup, movie_links, threads, response, record,
                   exc, gets, wrote, opened, sink, sink0>>

\* an idle worker takes the head of the queue and starts line 36
Take(w) ==
    /\ workers[w] = 0
    /\ Pending # {}
    /\ workers' = Set(workers, w, NextPending)
    /\ state' = Set(state, NextPending, "Fetching")
    /\ UNCHANGED <<mainPc, error, soup, movie_links, threads, response, record,
                   exc, gets, wrote, opened, sink, sink0>>

\* a failed fetch that puts the task back on the queue once before giving up
FetchFail_Retry(w) ==
    /\ workers[w] # 0
    /\ state[workers[w]] = "Fetching"
    /\ IF gets[workers[w]] = 0
       THEN /\ state' = Set(state, workers[w], "Pending")
            /\ UNCHANGED exc
       ELSE /\ state' = Set(state, workers[w], "Discarded")
            /\ exc' = Set(exc, workers[w], "ConnectionError")
    /\ gets' = Set(gets, workers[w], gets[workers[w]] + 1)
    /\ workers' = Set(workers, w, 0)
    /\ UNCHANGED <<mainPc, error, soup, movie_links, threads, response, record,
                   wrote, opened, sink, sink0>>

\* a failed fetch that also cancels the tasks still queued
FetchFail_Cancel(w) ==
    /\ workers[w] # 0
    /\ state[workers[w]] = "Fetching"
    /\ state' = [i \in Tasks |-> IF i = workers[w] \/ state[i] = "Pending"
                                 THEN "Discarded" ELSE state[i]]
    /\ exc' = Set(exc, workers[w], "ConnectionError")
    /\ gets' = Set(gets, workers[w], gets[workers[w]] + 1)
    /\ workers' = Set(workers, w, 0)
    /\ UNCHANGED <<mainPc, error, soup, movie_links, threads, response, record,
                   wrote, opened, sink, sink0>>

\* a failed fetch whose exception reaches the caller of the dispatch
FetchFail_Propagate(w) ==
    /\ workers[w] # 0
    /\ state[workers[w]] = "Fetching"
    /\ state' = Set(state, workers[w], "Discarded")
    /\ exc' = Set(exc, workers[w], "ConnectionError")
    /\ gets' = Set(gets, workers[w], gets[workers[w]] + 1)
    /\ workers' = Set(workers, w, 0)
    /\ mainPc' = "Raised"
    /\ error' = "ConnectionError"
    /\ UNCHANGED <<soup, movie_links, threads, response, record,
                   wrote, opened, sink, sink0>>

\* line 37 raises: the exception ends the task and is stored in its future,
\* which nobody reads
FetchFail(w) ==
    /\ workers[w] # 0
    /\ state[workers[w]] = "Fetching"
    /\ state' = Set(state, workers[w], "Discarded")
    /\ exc' = Set(exc, workers[w], "ConnectionError")
    /\ gets' = Set(gets, workers[w], gets[workers[w]] + 1)
    /\ workers' = Set(workers, w, 0)
    /\ UNCHANGED <<mainPc, error, soup, movie_links, threads, response, record,
                   wrote, opened, sink, sink0>>

\* lines 37-69: the GET returns page p and the fields are extracted; when
\* line 56 raises, the exception ends the task and is stored in its future
FetchPage(w, p) ==
    /\ workers[w] # 0
    /\ state[workers[w]] = "Fetching"
    /\ response' = Set(response, workers[w], p)
    /\ IF ExtractRaises(p)
       THEN /\ state' = Set(state, workers[w], "Discarded")
            /\ exc' = Set(exc, workers[w], "AttributeError")
            /\ workers' = Set(workers, w, 0)
            /\ UNCHANGED record
       ELSE /\ state' = Set(state, workers[w], "Extracted")
            /\ record' = Set(record, workers[w], Extract(p))
            /\ UNCHANGED <<exc, workers>>
    /\ gets' = Set(gets, workers[w], gets[workers[w]] + 1)
    /\ UNCHANGED <<mainPc, error, soup, movie_links, threads,
                   wrote, opened, sink, sink0>>

\* the GET of a title address returns one of the pages of the pipeline
FetchOk(w) == \E p \in PipelinePages : FetchPage(w, p)

\* the task ends but its worker thread never takes another one
Return_Leak(w) ==
    /\ workers[w] # 0
    /\ state[workers[w]] = "Extracted"
    /\ ~HasTarget(response[workers[w]])
    /\ state' = Set(state, workers[w], "Discarded")
    /\ UNCHANGED <<mainPc, error, soup, movie_links, threads, workers, response, record,
                   exc, gets, wrote, opened, sink, sink0>>

\* lines 47 and 50 are false: the function returns without touching the file
Return(w) ==
    /\ workers[w] # 0
    /\ state[workers[w]] = "Extracted"
    /\ ~HasTarget(response[workers[w]])
    /\ state' = Set(state, workers[w], "Discarded")
    /\ workers' = Set(workers, w, 0)
    /\ UNCHANGED <<mainPc, error, soup, movie_links, threads, response, record,
                   exc, gets, wrote, opened, sink, sink0>>

\* line 72: movies.csv is opened for append
OpenSink(w) ==
    /\ workers[w] # 0
    /\ state[workers[w]] = "Extracted"
    /\ HasTarget(response[workers[w]])
    /\ workers[w] \notin opened
    /\ opened' = opened \cup {workers[w]}
    /\ UNCHANGED <<mainPc, error, soup, movie_links, threads, workers, state, response,
                   record, exc, gets, wrote, sink, sink0>>

\* the file opened with mode 'w': the row replaces what the file held
CloseSink_Truncate(w) ==
    /\ workers[w] # 0
    /\ workers[w] \in opened
    /\ IF Gate(record[workers[w]])
       THEN /\ sink' = <<Row(record[workers[w]])>>
            /\ wrote' = Set(wrote, workers[w], wrote[workers[w]] + 1)
            /\ state' = Set(state, workers[w], "Committed")
       ELSE /\ state' = Set(state, workers[w], "Discarded")
            /\ sink' = <<>>
            /\ UNCHANGED wrote
    /\ opened' = opened \ {workers[w]}
    /\ workers' = Set(workers, w, 0)
    /\ UNCHANGED <<mainPc, error, soup, movie_links, threads, response, record,
                   exc, gets, sink0>>

\* a commit that loses its row when another worker holds the file open
CloseSink_Lost(w) ==
    /\ workers[w] # 0
    /\ workers[w] \in opened
    /\ IF Gate(record[workers[w]])
       THEN /\ sink' = IF opened = {workers[w]}
                       THEN Append(sink, Row(record[workers[w]])) ELSE sink
            /\ wrote' = Set(wrote, workers[w], wrote[workers[w]] + 1)
            /\ state' = Set(state, workers[w], "Committed")
       ELSE /\ state' = Set(state, workers[w], "Discarded")
            /\ UNCHANGED <<sink, wrote>>
    /\ opened' = opened \ {workers[w]}
    /\ workers' = Set(workers, w, 0)
    /\ UNCHANGED <<mainPc, error, soup, movie_links, threads, response, record,
                   exc, gets, sink0>>

\* lines 75-77 and the end of the with block: the row is written when the
\* gate passes, and the file is closed
CloseSink(w) ==
    /\ workers[w] # 0
    /\ workers[w] \in opened
    /\ IF Gate(record[workers[w]])
       THEN /\ sink' = Append(sink, Row(record[workers[w]]))
            /\ wrote' = Set(wrote, workers[w], wrote[workers[w]] + 1)
            /\ state' = Set(state, workers[w], "Committed")
       ELSE /\ state' = Set(state, workers[w], "Discarded")
            /\ UNCHANGED <<sink, wrote>>
    /\ opened' = opened \ {workers[w]}
    /\ workers' = Set(workers, w, 0)
    /\ UNCHANGED <<mainPc, error, soup, movie_links, threads, response, record,
                   exc, gets, sink0>>

Worker(w) == Take(w) \/ FetchFail(w) \/ FetchOk(w) \/ Return(w) \/ OpenSink(w) \/ CloseSink(w)

Main == FetchSeedOk \/ FetchSeedFail \/ CollectLinks \/ CreatePool \/ Submit \/ Join \/ Report

Next == Main \/ \E w \in DOMAIN workers : Worker(w)

Spec == Init /\ [][Next]_vars

\* every fetch eventually returns or fails, the worker threads and the main
\* thread are scheduled fairly
Fairness ==
    /\ WF_vars(Main)
    /\ \A w \in 1..MAX_THREADS : WF_vars(w \in DOMAIN workers /\ Worker(w))

SpecFair == Spec /\ Fairness

----------------------------------------------------------------------------
(* The extraction and the gate alone, on every combination of markers *)

Texts == {<<>>, <<" ">>, <<"x">>}

\* a marker that is absent, or present with one of the texts
Marker == {[present |-> FALSE, text |-> <<>>]} \cup {[present |-> TRUE, text |-> t] : t \in Texts}

\* the heading: absent, present without a span, or with a span of some text
Heading == {[h1 |-> FALSE, span |-> FALSE, text |-> <<>>], [h1 |-> TRUE, span |-> FALSE, text |-> <<>>]}
           \cup {[h1 |-> TRUE, span |-> TRUE, text |-> t] : t \in Texts}

AllPages ==
    {Page(sec, IF sec THEN nd ELSE 0, h.h1, h.span, h.text, rel.present, rel.text,
          rat.present, rat.text, pl.present, pl.text) :
        sec \in BOOLEAN, nd \in 0..MaxDivs, h \in Heading,
        rel \in Marker, rat \in Marker, pl \in Marker}

\* one address, its task taken by the only worker
InitExtract ==
    /\ mainPc = "Shutdown"
    /\ error = "None"
    /\ soup = Seed(TRUE, TRUE, GoodItems(1))
    /\ movie_links = Links(GoodItems(1))
    /\ threads = Threads(movie_links)
    /\ workers = <<1>>
    /\ state = <<"Fetching">>
    /\ response = <<NoPage>>
    /\ record = <<NullRecord>>
    /\ exc = <<"None">>
    /\ gets = <<0>>
    /\ wrote = <<0>>
    /\ opened = {}
    /\ sink = <<>>
    /\ sink0 = sink

\* the GET returns any page
FetchAny(w) == \E p \in AllPages : FetchPage(w, p)

NextExtract == \E w \in DOMAIN workers : FetchAny(w) \/ Return(w) \/ OpenSink(w) \/ CloseSink(w)

SpecExtract == InitExtract /\ [][NextExtract]_vars

----------------------------------------------------------------------------
(* The link collector alone, on every seed markup up to MaxSeedItems items *)

ItemLists == UNION {[1..n -> Items] : n \in 0..MaxSeedItems}

CollectorSeeds ==
    {Seed(FALSE, FALSE, <<>>), Seed(TRUE, FALSE, <<>>)}
    \cup {Seed(TRUE, TRUE, its) : its \in ItemLists}

InitLinks ==
    /\ mainPc = "Collect"
    /\ error = "None"
    /\ soup \in CollectorSeeds
    /\ movie_links = <<>>
    /\ threads = 0
    /\ workers = <<>>
    /\ state = <<>>
    /\ response = <<>>
    /\ record = <<>>
    /\ exc = <<>>
    /\ gets = <<>>
    /\ wrote = <<>>
    /\ opened = {}
    /\ sink = <<>>
    /\ sink0 = sink

NextLinks == CollectLinks

SpecLinks == InitLinks /\ [][NextLinks]_vars

----------------------------------------------------------------------------
(* Properties *)

NonNull(r) == ~r.title.null /\ ~r.date.null /\ ~r.rating.null /\ ~r.plot.null

NonEmpty(r) == Len(r.title.text) > 0 /\ Len(r.date.text) > 0
               /\ Len(r.rating.text) > 0 /\ Len(r.plot.text) > 0

\* the rows the run has appended to movies.csv
Appended == SubSeq(sink, Len(sink0) + 1, Len(sink))

\* C1: every row the run has appended to the sink is the row of the Record of
\* some task, and the title, date, rating and synopsis of that Record are
\* all non-null.
C1_Completeness ==
    /\ Len(sink) >= Len(sink0)
    /\ \A k \in 1..Len(Appended) :
         \E i \in Tasks : /\ wrote[i] > 0
                          /\ Appended[k] = Row(record[i])
                          /\ NonNull(record[i])

C1_Witness == \E i \in Tasks : state[i] = "Committed" /\ Len(Appended) > 0

\* C2 as stated: a task whose extraction produced a Record writes exactly one
\* row if and only if the four fields of the Record are non-null.
C2_Original ==
    \A i \in Tasks :
        (Terminal(i) /\ exc[i] = "None") => (wrote[i] = 1 <=> NonNull(record[i]))

\* C2 amended: a task whose extraction produced a Record writes exactly one
\* row and ends Committed if and only if the four fields are non-null and
\* non-empty; otherwise it writes nothing, ends Discarded and holds no
\* exception.
C2_GateTruthy ==
    \A i \in Tasks :
        (Terminal(i) /\ exc[i] = "None") =>
            IF NonNull(record[i]) /\ NonEmpty(record[i])
            THEN wrote[i] = 1 /\ state[i] = "Committed"
            ELSE wrote[i] = 0 /\ state[i] = "Discarded"

\* a Record with a found but empty field was discarded, and a complete one written
C2_Witness ==
    /\ \E i \in Tasks : /\ state[i] = "Discarded" /\ exc[i] = "None"
                        /\ NonNull(record[i]) /\ ~NonEmpty(record[i])
    /\ \E i \in Tasks : state[i] = "Committed" /\ wrote[i] = 1

\* C3: the number of tasks in flight (started, not terminal) never exceeds
\* min(MAX_THREADS, number of addresses).
C3_ConcurrencyBound == Cardinality(InFlight) <= Min(MAX_THREADS, Len(movie_links))

\* a list longer than the bound with MAX_THREADS tasks in flight
C3_Witness == Len(movie_links) > MAX_THREADS /\ Cardinality(InFlight) = MAX_THREADS

\* what the fetch of task j alone decides: its terminal state
Outcome(j) ==
    IF exc[j] = "ConnectionError" THEN "Discarded"
    ELSE IF ~response[j].fetched THEN "Unknown"
    ELSE IF ExtractRaises(response[j]) THEN "Discarded"
    ELSE IF NonNull(Extract(response[j])) /\ NonEmpty(Extract(response[j])) THEN "Committed"
    ELSE "Discarded"

\* the rows task j has contributed, given its own fetch result
OutcomeRows(j) == IF Outcome(j) = "Committed" THEN {Row(Extract(response[j]))} ELSE {}

\* C4: the terminal state of every task and the row it writes are decided by
\* the result of its own fetch alone, whatever the other tasks did; and the
\* step in which the fetch of a task fails changes no other task, cancels
\* none and frees the worker.
C4_Isolation ==
    /\ [](\A j \in Tasks :
            Terminal(j) => /\ gets[j] = 1
                           /\ state[j] = Outcome(j)
                           /\ wrote[j] = Cardinality(OutcomeRows(j))
                           /\ \A r \in OutcomeRows(j) : \E k \in 1..Len(Appended) : Appended[k] = r)
    /\ [][\A i \in Tasks :
            (exc[i] = "None" /\ exc'[i] = "ConnectionError") =>
                /\ \A j \in Tasks \ {i} :
                     /\ state'[j] = state[j]
                     /\ record'[j] = record[j]
                     /\ response'[j] = response[j]
                     /\ wrote'[j] = wrote[j]
                /\ sink' = sink
                /\ \A w \in DOMAIN workers :
                     workers'[w] = IF workers[w] = i THEN 0 ELSE workers[w]]_vars

\* a task committed its row in a run in which an earlier task's fetch failed
C4_Witness ==
    \E i, j \in Tasks : /\ i < j
                        /\ exc[i] = "ConnectionError"
                        /\ state[j] = "Committed"

\* C5: a task whose GET failed with a transport error is Discarded, has
\* written no row, has sent exactly one request, and no error has reached
\* the caller.
C5_TransportAbsorbed ==
    \A i \in Tasks :
        exc[i] = "ConnectionError" =>
            /\ state[i] = "Discarded"
            /\ wrote[i] = 0
            /\ gets[i] = 1
            /\ error = "None"
            /\ mainPc # "Raised"

\* the run has returned normally although a fetch failed
C5_Witness == mainPc = "Done" /\ \E i \in Tasks : exc[i] = "ConnectionError"

\* C6: once the dispatch has returned to main, every address has been
\* dispatched and every task is Committed or Discarded.
C6_BlockingRun ==
    mainPc \in {"Report", "Done"} =>
        /\ Len(state) = Len(movie_links)
        /\ \A i \in Tasks : Terminal(i)

\* the run has returned after a list longer than the bound
C6_Witness == mainPc = "Done" /\ Len(state) > MAX_THREADS

AllTerminal == Len(state) = Len(movie_links) /\ \A i \in Tasks : Terminal(i)

\* C7: under fair scheduling, once the dispatch starts every address
\* eventually is Committed or Discarded, and a task that is Committed or
\* Discarded keeps that state.
C7_Termination ==
    /\ (mainPc = "Map") ~> AllTerminal
    /\ [][\A i \in Tasks : Terminal(i) => state'[i] = state[i]]_vars

\* every task of a list longer than the bound is terminal, both outcomes occur
C7_Witness ==
    /\ Len(movie_links) > MAX_THREADS
    /\ AllTerminal
    /\ \E i, j \in Tasks : state[i] = "Committed" /\ state[j] = "Discarded"

StructureAbsent == soup.fetched /\ (~soup.container \/ ~soup.list)

\* C8: when the seed markup lacks the container or its list, the collector
\* raises to the caller, no task is submitted, no worker exists, no page is
\* fetched and the sink is as it was.
C8_StructuralAbsence ==
    (StructureAbsent /\ mainPc # "Collect") =>
        /\ mainPc = "Raised"
        /\ error = "AttributeError"
        /\ state = <<>>
        /\ workers = <<>>
        /\ opened = {}
        /\ sink = sink0

\* the collector raised on a seed whose container holds no list
C8_Witness == mainPc = "Raised" /\ soup.fetched /\ soup.container /\ ~soup.list

\* C9 as stated: when the container and its list are present and every item
\* has a link, whatever the number of items, no error reaches the caller.
C9_Original ==
    (soup.fetched /\ soup.container /\ soup.list /\ ItemsError(soup.items) = "None")
        => mainPc # "Raised"

\* the first link of every item exists and has a target
AllLinked(s) ==
    /\ s.fetched /\ s.container /\ s.list
    /\ \A k \in 1..Len(s.items) : s.items[k] # <<>> /\ ~s.items[k][1].null

\* C10: for a seed whose list holds n items, each with a first link that has
\* a target, the collector returns n addresses, the k-th being the origin
\* followed by the target of the first link of the k-th item.
C10_LinkCollector ==
    (AllLinked(soup) /\ mainPc # "Collect") =>
        /\ error = "None"
        /\ Len(movie_links) = Len(soup.items)
        /\ \A k \in 1..Len(soup.items) :
             /\ SubSeq(movie_links[k], 1, Len(Origin)) = Origin
             /\ SubSeq(movie_links[k], Len(Origin) + 1, Len(movie_links[k])) = soup.items[k][1].text

\* two items with different first links, the first item holding a second link
C10_Witness ==
    /\ mainPc = "Pool"
    /\ Len(movie_links) = 2
    /\ Len(soup.items[1]) = 2
    /\ soup.items[1][1] # soup.items[1][2]
    /\ movie_links[1] # movie_links[2]

\* C11 as stated: at most one worker at a time holds the sink open, and
\* every appended row is the four fields, in order, of the Record of one
\* task that wrote.
C11_Original ==
    /\ Cardinality(opened) <= 1
    /\ \A k \in 1..Len(Appended) :
         \E i \in Tasks :
             /\ wrote[i] > 0
             /\ Appended[k] = <<record[i].title.text, record[i].date.text,
                                record[i].rating.text, record[i].plot.text>>

\* C12 as stated: no exception escapes the extraction of a fetched page; a
\* heading without a span gives a null title and the task ends Discarded
\* without an exception.
C12_Original ==
    \A i \in Tasks :
        response[i].fetched =>
            /\ exc[i] = "None"
            /\ (~(HasTarget(response[i]) /\ response[i].h1 /\ response[i].span)
                    => (record[i].title.null /\ state[i] \in {"Extracted", "Discarded"}))

\* C13 as stated: for every fetched page, without the section or with fewer
\* than two child divs the Record is all-null; otherwise each field is
\* non-null exactly when its marker is there, independently of the others;
\* with all four markers the Record is committed, and without the rating
\* marker no row is written.
C13_Original ==
    \A i \in Tasks :
        response[i].fetched =>
            /\ ~HasTarget(response[i]) => record[i] = NullRecord
            /\ HasTarget(response[i]) =>
                 /\ ~record[i].title.null <=> (response[i].h1 /\ response[i].span)
                 /\ ~record[i].date.null <=> response[i].release
                 /\ ~record[i].rating.null <=> response[i].ratingTag
                 /\ ~record[i].plot.null <=> response[i].plotTag
            /\ (Terminal(i) /\ HasTarget(response[i]) /\ response[i].h1 /\ response[i].span
                  /\ response[i].release /\ response[i].ratingTag /\ response[i].plotTag)
                 => (state[i] = "Committed" /\ wrote[i] = 1)
            /\ ~response[i].ratingTag => wrote[i] = 0

\* the transitions of the per-task state machine of the spec
ChainEdges == {<<"Pending", "Fetching">>, <<"Fetching", "Extracted">>,
               <<"Extracted", "Committed">>, <<"Extracted", "Discarded">>}

C15_AppendOnly ==
    /\ [][/\ \/ sink' = sink
             \/ /\ Len(sink') = Len(sink) + 1
                /\ SubSeq(sink', 1, Len(sink)) = sink
          /\ \A i \in Tasks :
               (state[i] # "Discarded" /\ state'[i] = "Discarded") => sink' = sink]_vars
    /\ [](Len(sink) >= Len(sink0) /\ SubSeq(sink, 1, Len(sink0)) = sink0)

\* rows were appended after the row of a previous run, and a task was discarded
C15_Witness ==
    /\ sink0 = <<OldRow>>
    /\ Len(sink) >= 3
    /\ sink[1] = OldRow
    /\ \E i \in Tasks : state[i] = "Discarded"

\* the workers that run task i
Holders(i) == {w \in DOMAIN workers : workers[w] = i}

\* C16: a task in flight is run by exactly one worker and a queued or
\* terminal task by none; a task never returns to the queue; every task has
\* sent at most one request and appended at most one row; the run has
\* appended no more rows than there are addresses.
C16_NoRetry ==
    /\ [](/\ \A i \in Tasks :
               /\ Cardinality(Holders(i)) = (IF i \in InFlight THEN 1 ELSE 0)
               /\ gets[i] <= 1
               /\ wrote[i] <= 1
               /\ Terminal(i) => gets[i] = 1
          /\ Len(state) <= Len(movie_links)
          /\ Len(Appended) <= Len(movie_links))
    /\ [][\A i \in Tasks : state[i] # "Pending" => state'[i] # "Pending"]_vars

\* every address of a list longer than the bound was requested once and
\* contributed its row
C16_Witness ==
    /\ Len(movie_links) > MAX_THREADS
    /\ Len(Appended) = Len(movie_links)
    /\ \A i \in Tasks : gets[i] = 1 /\ wrote[i] = 1

\* number of rows equal to r the run has appended
CountAppended(r) == Cardinality({k \in 1..Len(Appended) : Appended[k] = r})

\* tasks whose page was fetched and extracted without an exception
Extracted == {i \in Tasks : response[i].fetched /\ ~ExtractRaises(response[i])}

\* C17 as stated: when the run has returned, the rows appended are, as a
\* multiset, one row per address whose extracted Record has four non-null
\* fields.
C17_Original ==
    mainPc \in {"Report", "Done"} =>
        /\ \A k \in 1..Len(Appended) :
             \E i \in Extracted : NonNull(Extract(response[i])) /\ Appended[k] = Row(Extract(response[i]))
        /\ \A i \in Extracted :
             NonNull(Extract(response[i])) =>
                 CountAppended(Row(Extract(response[i]))) =
                     Cardinality({j \in Extracted : /\ NonNull(Extract(response[j]))
                                                    /\ Row(Extract(response[j])) = Row(Extract(response[i]))})

\* the addresses whose Record has four non-null and non-empty fields
Complete == {i \in Extracted : NonNull(Extract(response[i])) /\ NonEmpty(Extract(response[i]))}

\* C17 amended: when the run has returned, the rows appended are, as a
\* multiset, one row per address whose extracted Record has four non-null
\* and non-empty fields, whatever the interleaving of the workers.
C17_ScheduleIndependent ==
    mainPc \in {"Report", "Done"} =>
        /\ Len(Appended) = Cardinality(Complete)
        /\ \A k \in 1..Len(Appended) :
             \E i \in Complete : Appended[k] = Row(Extract(response[i]))
        /\ \A i \in Complete :
             CountAppended(Row(Extract(response[i]))) =
                 Cardinality({j \in Complete : Row(Extract(response[j])) = Row(Extract(response[i]))})

\* the run has returned with two different rows written in the reverse of
\* the order of their addresses, and with a Record of an empty field dropped
C17_Witness ==
    /\ mainPc = "Done"
    /\ Len(Appended) = 2
    /\ \E i, j \in Complete :
          /\ i < j
          /\ Appended[1] = Row(record[j])
          /\ Appended[2] = Row(record[i])
          /\ Appended[1] # Appended[2]
    /\ \E i \in Extracted \ Complete : NonNull(record[i])

====
